---- MODULE Spec2Model ----
(***************************************************************************)
(* Model of libspu/mpc/semi2k/beaver/beaver_tfp.cc: BeaverTfpUnsafe, the   *)
(* trusted-first-party Beaver generator of the semi2k protocol.            *)
(*                                                                         *)
(* A session is one BeaverTfpUnsafe object.  Sessions are indexed by the   *)
(* link context they are bound to (a "group" g) and by the rank r of the   *)
(* party holding them.  Group 1 is the root context; the other groups are  *)
(* the sub-contexts produced by lctx_->Spawn().                            *)
(*                                                                         *)
(* Ring widths are scaled down (2 and 3 bits stand for FM32/FM64/FM128),   *)
(* and so are the 128-bit seeds; all ring arithmetic is kept modulo 2^w.   *)
(***************************************************************************)
EXTENDS Integers, Sequences, FiniteSets, TLC

\* ------------------------------------------------------------------ bounds
NumParties == 2      \* lctx_->WorldSize()
MaxSeed == 1         \* seeds are drawn from 0..MaxSeed
MaxOps == 2          \* operations called, over all contexts
MaxGroups == 2       \* link contexts: the root and the spawned ones
MaxCounter == 8      \* cap on counter_ (the code's counter is unbounded in practice)
MaxDim == 2          \* largest dimension of a shape

Ranks == 0..(NumParties - 1)
Groups == 1..MaxGroups
Seeds == 0..MaxSeed
Fields == {2, 3}                       \* ring widths in bits
Shapes == {<<n>> : n \in 1..MaxDim}     \* shapes of the elementwise operations
DotDims == {<<m, n, k>> : m \in 1..MaxDim, n \in 1..MaxDim, k \in 1..MaxDim}

VARIABLES
  pc,        \* pc[g][r]: "none", "gather", "ready", "spawn", "recv",
             \*           "ctor_failed", "aborted"
  seed_,     \* seed_[g][r]: the session's own seed
  counter_,  \* counter_[g][r]: the session's PRG counter
  seeds_,    \* seeds_[g][r]: the seed roster (filled at rank 0 only)
  chan,      \* chan[g][r][tag]: buffers sent by rank r to rank 0, in order
  prog,      \* prog[g]: the operations the parties call on group g, in order
  done,      \* done[g][r]: what each finished call of rank r returned
  draws,     \* draws[g][r]: descriptor of every prgCreateArray draw so far
  pend       \* pend[g]: locals (draws, perm_vec) of rank 0's PermPair call blocked in Recv

vars == <<pc, seed_, counter_, seeds_, chan, prog, done, draws, pend>>

\* ------------------------------------------------------- ring arithmetic
RECURSIVE Pow2(_)
Pow2(n) == IF n <= 0 THEN 1 ELSE 2 * Pow2(n - 1)

RECURSIVE BitXor(_, _)
BitXor(x, y) ==
  IF x = 0 THEN y
  ELSE IF y = 0 THEN x
  ELSE (((x % 2) + (y % 2)) % 2) + 2 * BitXor(x \div 2, y \div 2)

RECURSIVE BitAnd(_, _)
BitAnd(x, y) ==
  IF x = 0 \/ y = 0 THEN 0
  ELSE ((x % 2) * (y % 2)) + 2 * BitAnd(x \div 2, y \div 2)

RECURSIVE Numel(_)
Numel(shape) == IF shape = <<>> THEN 1 ELSE Head(shape) * Numel(Tail(shape))

ring_add(x, y, field) == [i \in DOMAIN x |-> (x[i] + y[i]) % Pow2(field)]
ring_sub(x, y, field) == [i \in DOMAIN x |-> (x[i] - y[i]) % Pow2(field)]
ring_mul(x, y, field) == [i \in DOMAIN x |-> (x[i] * y[i]) % Pow2(field)]
ring_xor(x, y, field) == [i \in DOMAIN x |-> BitXor(x[i], y[i])]
ring_and(x, y, field) == [i \in DOMAIN x |-> BitAnd(x[i], y[i])]

\* two's complement value of a ring element
Signed(v, field) == IF v >= Pow2(field - 1) THEN v - Pow2(field) ELSE v

ring_arshift(x, bits, field) ==
  [i \in DOMAIN x |-> (Signed(x[i], field) \div Pow2(bits)) % Pow2(field)]
ring_rshift(x, bits, field) == [i \in DOMAIN x |-> x[i] \div Pow2(bits)]
ring_lshift(x, bits, field) == [i \in DOMAIN x |-> (x[i] * Pow2(bits)) % Pow2(field)]

RECURSIVE DotSum(_, _, _, _, _, _, _)
DotSum(x, y, i, j, n, k, l) ==
  IF l = 0 THEN 0
  ELSE x[(i - 1) * k + l] * y[(l - 1) * n + j] + DotSum(x, y, i, j, n, k, l - 1)

\* x is m-by-k, y is k-by-n, both row-major; the result is m-by-n
ring_mmul(x, y, m, n, k, field) ==
  [e \in 1..(m * n) |->
     DotSum(x, y, ((e - 1) \div n) + 1, ((e - 1) % n) + 1, n, k, k) % Pow2(field)]

\* ------------------------------------------------- deterministic generator
\* The pseudo-random function behind FillPRand: element number ctr of the
\* stream keyed by seed, truncated to the ring.
Prg(seed, ctr, field) ==
  (((seed + 6) * (ctr + 5) * (seed + ctr + 2)) \div 4) % Pow2(field)

PrgArrayDesc(field, shape, ctr) == [field |-> field, shape |-> shape, prg_counter |-> ctr]

prgCreateArray(field, shape, seed, counter) ==
  [arr |-> [i \in 1..Numel(shape) |-> Prg(seed, counter + i - 1, field)],
   counter |-> counter + Numel(shape),
   desc |-> PrgArrayDesc(field, shape, counter)]

prgReplayArray(seed, desc) ==
  prgCreateArray(desc.field, desc.shape, seed, desc.prg_counter).arr

\* ---------------------------------------------------- trusted aggregator
RECURSIVE ReconstructTo(_, _, _, _)
ReconstructTo(isXor, seeds, desc, n) ==
  IF n = 1 THEN prgReplayArray(seeds[1], desc)
  ELSE IF isXor
       THEN ring_xor(ReconstructTo(isXor, seeds, desc, n - 1),
                     prgReplayArray(seeds[n], desc), desc.field)
       ELSE ring_add(ReconstructTo(isXor, seeds, desc, n - 1),
                     prgReplayArray(seeds[n], desc), desc.field)

\* rs[idx]: the sum (or XOR) over the roster of the array descs[idx] describes
reconstruct(isXor, seeds, descs) ==
  [idx \in DOMAIN descs |-> ReconstructTo(isXor, seeds, descs[idx], Len(seeds))]

adjustMul(descs, seeds) ==
  LET rs == reconstruct(FALSE, seeds, descs)
      f == descs[1].field
  IN  ring_sub(ring_mul(rs[1], rs[2], f), rs[3], f)

adjustDot(descs, seeds, m, n, k) ==
  LET rs == reconstruct(FALSE, seeds, descs)
      f == descs[1].field
  IN  ring_sub(ring_mmul(rs[1], rs[2], m, n, k, f), rs[3], f)

adjustAnd(descs, seeds) ==
  LET rs == reconstruct(TRUE, seeds, descs)
      f == descs[1].field
  IN  ring_xor(ring_and(rs[1], rs[2], f), rs[3], f)

adjustTrunc(descs, seeds, bits) ==
  LET rs == reconstruct(FALSE, seeds, descs)
      f == descs[1].field
  IN  ring_sub(ring_arshift(rs[1], bits, f), rs[2], f)

adjustTruncPr(descs, seeds, bits) ==
  LET rs == reconstruct(FALSE, seeds, descs)
      f == descs[1].field
  IN  <<ring_sub(ring_rshift(ring_lshift(rs[1], 1, f), bits + 1, f), rs[2], f),
        ring_sub(ring_rshift(rs[1], f - 1, f), rs[3], f)>>

\* rbits: the random bits the aggregator samples for this call
adjustRandBit(descs, seeds, rbits) ==
  LET rs == reconstruct(FALSE, seeds, descs)
  IN  ring_sub(rbits, rs[1], descs[1].field)

\* b[i] = a[pv[i]], pv a 0-based index vector
applyPerm(x, pv) == [i \in DOMAIN x |-> x[pv[i] + 1]]

adjustPerm(descs, seeds, pv) ==
  LET rs == reconstruct(FALSE, seeds, descs)
  IN  ring_sub(applyPerm(rs[1], pv), rs[2], descs[1].field)

adjustEqz(descs, seeds) ==
  LET ra == reconstruct(FALSE, seeds, <<descs[1]>>)[1]
      rb == reconstruct(TRUE, seeds, <<descs[2]>>)[1]
      z == [i \in DOMAIN ra |-> IF ra[i] = 0 THEN 1 ELSE 0]
  IN  ring_xor(z, rb, descs[1].field)

\* Programming errors the correction engine rejects (spec section 7)
BitsValid(field, bits) == bits <= field

\* ------------------------------------------------------------ transport
SizeofInt64 == 8

\* yacl::SerializeUint128 / DeserializeUint128: a little-endian two-limb buffer
SerializeUint128(v) == <<v % 2, v \div 2>>
DeserializeUint128(buf) == buf[1] + 2 * buf[2]

\* yacl::Buffer(perm_vec.data(), perm_vec.size() * sizeof(int64_t))
Buffer(perm_vec) == [size |-> Len(perm_vec) * SizeofInt64, data |-> perm_vec]
\* absl::MakeSpan(pv_buf.data<int64_t>(), pv_buf.size() / sizeof(int64_t))
MakeSpan(pv_buf) == SubSeq(pv_buf.data, 1, pv_buf.size \div SizeofInt64)

kSeedTag == "BEAVER_TFP:SYNC_SEEDS"
kTag == "BEAVER_TFP:PERM"
Tags == {kSeedTag, kTag}

\* lctx_->SendAsync(0, buf, tag) by rank r on context g
SendAsync(ch, g, r, tag, buf) == [ch EXCEPT ![g][r][tag] = Append(@, buf)]
\* lctx_->Recv(r, tag) at rank 0: blocks until a buffer is there, then takes it
CanRecv(ch, g, r, tag) == ch[g][r][tag] # <<>>
RecvBuf(ch, g, r, tag) == Head(ch[g][r][tag])
\* Mutant: a receive removes the newest buffer of the sender, not the oldest
RecvPop_Newest(ch, g, r, tag) ==
  [ch EXCEPT ![g][r][tag] = SubSeq(@, 1, Len(@) - 1)]

RecvPop(ch, g, r, tag) == [ch EXCEPT ![g][r][tag] = Tail(@)]

\* ------------------------------------------------------ session operations
\* What one call did: the shares returned (none on an error), the counter
\* after the call, and the descriptors of its draws.
Outcome(ok, out, counter, descs) ==
  [ok |-> ok, out |-> IF ok THEN out ELSE <<>>, counter |-> counter, descs |-> descs]

\* Mutant: only rank 0 draws c; the other ranks return b in its place
Mul_RootOnlyC(rank, seed, counter, seeds, field, shape) ==
  LET a == prgCreateArray(field, shape, seed, counter)
      b == prgCreateArray(field, shape, seed, a.counter)
      c == IF rank = 0 THEN prgCreateArray(field, shape, seed, b.counter) ELSE b
      descs == <<a.desc, b.desc, c.desc>>
      cc == IF rank = 0 THEN ring_add(c.arr, adjustMul(descs, seeds), field) ELSE c.arr
  IN  Outcome(TRUE, <<a.arr, b.arr, cc>>, c.counter, descs)

\* Mutant: the correction is XORed into c instead of added
Mul_XorAdjust(rank, seed, counter, seeds, field, shape) ==
  LET a == prgCreateArray(field, shape, seed, counter)
      b == prgCreateArray(field, shape, seed, a.counter)
      c == prgCreateArray(field, shape, seed, b.counter)
      descs == <<a.desc, b.desc, c.desc>>
      cc == IF rank = 0 THEN ring_xor(c.arr, adjustMul(descs, seeds), field) ELSE c.arr
  IN  Outcome(TRUE, <<a.arr, b.arr, cc>>, c.counter, descs)

\* Mutant: the third draw starts from the counter before the second draw
Mul_StaleCounter(rank, seed, counter, seeds, field, shape) ==
  LET a == prgCreateArray(field, shape, seed, counter)
      b == prgCreateArray(field, shape, seed, a.counter)
      c == prgCreateArray(field, shape, seed, a.counter)
      descs == <<a.desc, b.desc, c.desc>>
      cc == IF rank = 0 THEN ring_add(c.arr, adjustMul(descs, seeds), field) ELSE c.arr
  IN  Outcome(TRUE, <<a.arr, b.arr, cc>>, c.counter, descs)

Mul(rank, seed, counter, seeds, field, shape) ==
  LET a == prgCreateArray(field, shape, seed, counter)
      b == prgCreateArray(field, shape, seed, a.counter)
      c == prgCreateArray(field, shape, seed, b.counter)
      descs == <<a.desc, b.desc, c.desc>>
      cc == IF rank = 0 THEN ring_add(c.arr, adjustMul(descs, seeds), field) ELSE c.arr
  IN  Outcome(TRUE, <<a.arr, b.arr, cc>>, c.counter, descs)

\* Mutant: the correction is XORed into c instead of added
Dot_XorAdjust(rank, seed, counter, seeds, field, m, n, k) ==
  LET a == prgCreateArray(field, <<m, k>>, seed, counter)
      b == prgCreateArray(field, <<k, n>>, seed, a.counter)
      c == prgCreateArray(field, <<m, n>>, seed, b.counter)
      descs == <<a.desc, b.desc, c.desc>>
      cc == IF rank = 0 THEN ring_xor(c.arr, adjustDot(descs, seeds, m, n, k), field)
            ELSE c.arr
  IN  Outcome(TRUE, <<a.arr, b.arr, cc>>, c.counter, descs)

Dot(rank, seed, counter, seeds, field, m, n, k) ==
  LET a == prgCreateArray(field, <<m, k>>, seed, counter)
      b == prgCreateArray(field, <<k, n>>, seed, a.counter)
      c == prgCreateArray(field, <<m, n>>, seed, b.counter)
      descs == <<a.desc, b.desc, c.desc>>
      cc == IF rank = 0 THEN ring_add(c.arr, adjustDot(descs, seeds, m, n, k), field)
            ELSE c.arr
  IN  Outcome(TRUE, <<a.arr, b.arr, cc>>, c.counter, descs)

\* Mutant: the correction is added to c instead of XORed
And_AddAdjust(rank, seed, counter, seeds, field, shape) ==
  LET a == prgCreateArray(field, shape, seed, counter)
      b == prgCreateArray(field, shape, seed, a.counter)
      c == prgCreateArray(field, shape, seed, b.counter)
      descs == <<a.desc, b.desc, c.desc>>
      cc == IF rank = 0 THEN ring_add(c.arr, adjustAnd(descs, seeds), field) ELSE c.arr
  IN  Outcome(TRUE, <<a.arr, b.arr, cc>>, c.counter, descs)

And(rank, seed, counter, seeds, field, shape) ==
  LET a == prgCreateArray(field, shape, seed, counter)
      b == prgCreateArray(field, shape, seed, a.counter)
      c == prgCreateArray(field, shape, seed, b.counter)
      descs == <<a.desc, b.desc, c.desc>>
      cc == IF rank = 0 THEN ring_xor(c.arr, adjustAnd(descs, seeds), field) ELSE c.arr
  IN  Outcome(TRUE, <<a.arr, b.arr, cc>>, c.counter, descs)

\* Mutant: rank 0 adds the correction to a instead of b
Trunc_AdjustA(rank, seed, counter, seeds, field, shape, bits) ==
  LET a == prgCreateArray(field, shape, seed, counter)
      b == prgCreateArray(field, shape, seed, a.counter)
      descs == <<a.desc, b.desc>>
  IN  IF rank = 0
      THEN Outcome(BitsValid(field, bits),
                   <<ring_add(a.arr, adjustTrunc(descs, seeds, bits), field), b.arr>>,
                   b.counter, descs)
      ELSE Outcome(TRUE, <<a.arr, b.arr>>, b.counter, descs)

Trunc(rank, seed, counter, seeds, field, shape, bits) ==
  LET a == prgCreateArray(field, shape, seed, counter)
      b == prgCreateArray(field, shape, seed, a.counter)
      descs == <<a.desc, b.desc>>
  IN  IF rank = 0
      THEN Outcome(BitsValid(field, bits),
                   <<a.arr, ring_add(b.arr, adjustTrunc(descs, seeds, bits), field)>>,
                   b.counter, descs)
      ELSE Outcome(TRUE, <<a.arr, b.arr>>, b.counter, descs)

TruncPr(rank, seed, counter, seeds, field, shape, bits) ==
  LET r == prgCreateArray(field, shape, seed, counter)
      rc == prgCreateArray(field, shape, seed, r.counter)
      rb == prgCreateArray(field, shape, seed, rc.counter)
      descs == <<r.desc, rc.desc, rb.desc>>
      adjusts == adjustTruncPr(descs, seeds, bits)
  IN  IF rank = 0
      THEN Outcome(BitsValid(field, bits),
                   <<r.arr, ring_add(rc.arr, adjusts[1], field),
                     ring_add(rb.arr, adjusts[2], field)>>,
                   rb.counter, descs)
      ELSE Outcome(TRUE, <<r.arr, rc.arr, rb.arr>>, rb.counter, descs)

\* Mutant: the correction is XORed into a instead of added
RandBit_XorAdjust(rank, seed, counter, seeds, field, shape, rbits) ==
  LET a == prgCreateArray(field, shape, seed, counter)
      descs == <<a.desc>>
      aa == IF rank = 0 THEN ring_xor(a.arr, adjustRandBit(descs, seeds, rbits), field)
            ELSE a.arr
  IN  Outcome(TRUE, <<aa>>, a.counter, descs)

RandBit(rank, seed, counter, seeds, field, shape, rbits) ==
  LET a == prgCreateArray(field, shape, seed, counter)
      descs == <<a.desc>>
      aa == IF rank = 0 THEN ring_add(a.arr, adjustRandBit(descs, seeds, rbits), field)
            ELSE a.arr
  IN  Outcome(TRUE, <<aa>>, a.counter, descs)

\* Mutant: the correction is added to b instead of XORed
Eqz_AddAdjust(rank, seed, counter, seeds, field, shape) ==
  LET a == prgCreateArray(field, shape, seed, counter)
      b == prgCreateArray(field, shape, seed, a.counter)
      descs == <<a.desc, b.desc>>
      bb == IF rank = 0 THEN ring_add(b.arr, adjustEqz(descs, seeds), field) ELSE b.arr
  IN  Outcome(TRUE, <<a.arr, bb>>, b.counter, descs)

Eqz(rank, seed, counter, seeds, field, shape) ==
  LET a == prgCreateArray(field, shape, seed, counter)
      b == prgCreateArray(field, shape, seed, a.counter)
      descs == <<a.desc, b.desc>>
      bb == IF rank = 0 THEN ring_xor(b.arr, adjustEqz(descs, seeds), field) ELSE b.arr
  IN  Outcome(TRUE, <<a.arr, bb>>, b.counter, descs)

\* PermPair up to the branch on the rank: the two draws
PermPairDraw(seed, counter, field, shape) ==
  LET a == prgCreateArray(field, shape, seed, counter)
      b == prgCreateArray(field, shape, seed, a.counter)
  IN  [a |-> a.arr, b |-> b.arr, counter |-> b.counter, descs |-> <<a.desc, b.desc>>]

\* Mutant: rank 0 always corrects with its own perm_vec argument
PermPairVector_Own(perm_rank, perm_vec, pv_buf) == perm_vec

\* The vector rank 0 corrects with: its own argument or the received buffer
PermPairVector(perm_rank, perm_vec, pv_buf) ==
  IF perm_rank # 0 THEN MakeSpan(pv_buf) ELSE perm_vec

\* PermPair at rank 0 once the vector is at hand
PermPairAdjust(d, seeds, field, pv) ==
  Outcome(TRUE, <<d.a, ring_add(d.b, adjustPerm(d.descs, seeds, pv), field)>>,
          d.counter, d.descs)

\* Mutant: a failed Recv is swallowed and the raw draws are returned
PermPairFailed_RawShares(d) == Outcome(TRUE, <<d.a, d.b>>, d.counter, d.descs)

\* PermPair at rank 0 when Recv throws: the exception leaves the call before
\* any correction, and no share is returned
PermPairFailed(d) == Outcome(FALSE, <<d.a, d.b>>, d.counter, d.descs)

\* PermPair at a rank other than 0: the raw draws
PermPairPlain(d) == Outcome(TRUE, <<d.a, d.b>>, d.counter, d.descs)

\* Mutant: the owner keeps its vector to itself
PermPairSends_Never(rank, perm_rank) == FALSE

\* Mutant: every rank other than 0 posts its vector
PermPairSends_EveryPeer(rank, perm_rank) == rank # 0

\* Whether this rank posts its vector to rank 0
PermPairSends(rank, perm_rank) == rank # 0 /\ perm_rank = rank

\* How many arrays a call of each kind draws
NumDraws(kind) ==
  CASE kind \in {"Mul", "Dot", "And", "TruncPr"} -> 3
    [] kind \in {"Trunc", "PermPair", "Eqz"} -> 2
    [] kind = "RandBit" -> 1
    [] OTHER -> 0

\* The shares of each kind of call that rank 0 corrects
Corrected(kind) ==
  CASE kind \in {"Mul", "Dot", "And"} -> {3}
    [] kind \in {"Trunc", "PermPair", "Eqz"} -> {2}
    [] kind = "TruncPr" -> {2, 3}
    [] kind = "RandBit" -> {1}
    [] OTHER -> {}

\* ------------------------------------------------------------- the calls
OpRec(kind, field, shape, bits, perm_rank, child) ==
  [kind |-> kind, field |-> field, shape |-> shape, bits |-> bits,
   perm_rank |-> perm_rank, child |-> child]

TruncBits(field) == {1, field, field + 1}
Perms(n) == {p \in [1..n -> 0..(n - 1)] : \A i, j \in 1..n : p[i] = p[j] => i = j}
BitArrays(n) == [1..n -> {0, 1}]

Result(res, arg) == [ok |-> res.ok, out |-> res.out, arg |-> arg]
NoOutcome == [ok |-> TRUE, out |-> <<>>]

\* Contexts in use: the root and one per Spawn called so far
UsedGroups == 1 + Cardinality({<<g, i>> \in Groups \X (1..MaxOps) :
                                 i <= Len(prog[g]) /\ prog[g][i].kind = "Spawn"})

RECURSIVE OpsUpTo(_)
OpsUpTo(g) == IF g = 0 THEN 0 ELSE Len(prog[g]) + OpsUpTo(g - 1)
\* Operations called so far, over all contexts
TotalOps == OpsUpTo(MaxGroups)

\* All parties call the same operations, with the same arguments, in the same
\* order: the first party to reach a position chooses the call, the others
\* repeat it.
CallOp(g, r, op) ==
  LET i == Len(done[g][r]) + 1
  IN  IF i <= Len(prog[g])
      THEN op = prog[g][i] /\ UNCHANGED prog
      ELSE TotalOps < MaxOps /\ prog' = [prog EXCEPT ![g] = Append(@, op)]

\* The call returns: the counter, the draws and the result are recorded,
\* with the perm_vec argument the caller passed (PermPair) or the bits the
\* aggregator sampled (RandBit at rank 0)
Return(g, r, res, arg) ==
  /\ res.counter <= MaxCounter
  /\ counter_' = [counter_ EXCEPT ![g][r] = res.counter]
  /\ draws' = [draws EXCEPT ![g][r] = @ \o res.descs]
  /\ done' = [done EXCEPT ![g][r] = Append(@, Result(res, arg))]

Init ==
  /\ pc = [g \in Groups |-> [r \in Ranks |-> "none"]]
  /\ seed_ = [g \in Groups |-> [r \in Ranks |-> 0]]
  /\ counter_ = [g \in Groups |-> [r \in Ranks |-> 0]]
  /\ seeds_ = [g \in Groups |-> [r \in Ranks |-> <<>>]]
  /\ chan = [g \in Groups |-> [r \in Ranks |-> [t \in Tags |-> <<>>]]]
  /\ prog = [g \in Groups |-> <<>>]
  /\ done = [g \in Groups |-> [r \in Ranks |-> <<>>]]
  /\ draws = [g \in Groups |-> [r \in Ranks |-> <<>>]]
  /\ pend = [g \in Groups |-> <<>>]

\* Mutant: every rank puts its own seed into its roster
CtorEnter_OwnRoster(g, r, s) ==
  /\ seed_' = [seed_ EXCEPT ![g][r] = s]
  /\ counter_' = [counter_ EXCEPT ![g][r] = 0]
  /\ seeds_' = [seeds_ EXCEPT ![g][r] = <<s>>]
  /\ chan' = IF r # 0 THEN SendAsync(chan, g, r, kSeedTag, SerializeUint128(s)) ELSE chan

\* Mutant: the counter is shared by all sessions of the party, so that
\* constructing a session resets it for every one of them
CtorEnter_SharedCounter(g, r, s) ==
  /\ seed_' = [seed_ EXCEPT ![g][r] = s]
  /\ counter_' = [p \in Groups |-> [q \in Ranks |-> IF q = r THEN 0 ELSE counter_[p][q]]]
  /\ seeds_' = [seeds_ EXCEPT ![g][r] = <<>>]
  /\ chan' = IF r # 0 THEN SendAsync(chan, g, r, kSeedTag, SerializeUint128(s)) ELSE chan

\* Mutant: every session of a rank shares one seed, so a construction
\* reseeds the sessions the rank already has
CtorEnter_SharedSeed(g, r, s) ==
  /\ seed_' = [p \in Groups |-> [q \in Ranks |-> IF q = r THEN s ELSE seed_[p][q]]]
  /\ counter_' = [counter_ EXCEPT ![g][r] = 0]
  /\ seeds_' = [seeds_ EXCEPT ![g][r] = <<>>]
  /\ chan' = IF r # 0 THEN SendAsync(chan, g, r, kSeedTag, SerializeUint128(s)) ELSE chan

\* BeaverTfpUnsafe::BeaverTfpUnsafe up to the Gather call, on context g at rank
\* r with the sampled seed s.  A rank other than 0 posts its buffer and its
\* Gather returns at once with no buffers; rank 0 then waits in Gather.
CtorEnter(g, r, s) ==
  /\ seed_' = [seed_ EXCEPT ![g][r] = s]
  /\ counter_' = [counter_ EXCEPT ![g][r] = 0]
  /\ seeds_' = [seeds_ EXCEPT ![g][r] = <<>>]
  /\ chan' = IF r # 0 THEN SendAsync(chan, g, r, kSeedTag, SerializeUint128(s)) ELSE chan

\* Mutant: rank 0 does not wait in Gather either
CtorPc_NoGather(r) == "ready"

CtorPc(r) == IF r = 0 THEN "gather" ELSE "ready"

\* Construction of the root sessions
Construct(r) ==
  /\ pc[1][r] = "none"
  /\ \E s \in Seeds : CtorEnter(1, r, s)
  /\ pc' = [pc EXCEPT ![1][r] = CtorPc(r)]
  /\ UNCHANGED <<prog, done, draws, pend>>

\* The buffers Gather returns at rank 0, indexed by rank + 1
GatherBufs(g) ==
  [i \in 1..NumParties |->
     IF i = 1 THEN SerializeUint128(seed_[g][0]) ELSE RecvBuf(chan, g, i - 1, kSeedTag)]

\* Mutant: every roster entry is read from the first buffer
CollectSeeds_FirstBuf(all_bufs) ==
  [i \in 1..NumParties |-> DeserializeUint128(all_bufs[1])]

\* The roster rank 0 builds from the gathered buffers
CollectSeeds(all_bufs) ==
  [i \in 1..NumParties |-> DeserializeUint128(all_bufs[i])]

\* The session in Spawn whose child is being constructed on context g
Spawning(g) ==
  {p \in Groups : /\ pc[p][0] = "spawn"
                  /\ prog[p][Len(done[p][0]) + 1].child = g}

\* Rank 0's Gather returns and the constructor finishes; if the constructor
\* ran inside Spawn, Spawn returns the child.
CtorGather(g) ==
  /\ pc[g][0] = "gather"
  /\ \A r \in Ranks \ {0} : CanRecv(chan, g, r, kSeedTag)
  /\ seeds_' = [seeds_ EXCEPT ![g][0] = CollectSeeds(GatherBufs(g))]
  /\ chan' = [chan EXCEPT ![g] =
                [r \in Ranks |-> IF r = 0 THEN @[r]
                                 ELSE [@[r] EXCEPT ![kSeedTag] = Tail(@)]]]
  /\ pc' = [p \in Groups |-> [r \in Ranks |->
              IF r = 0 /\ (p = g \/ p \in Spawning(g)) THEN "ready" ELSE pc[p][r]]]
  /\ done' = [p \in Groups |-> [r \in Ranks |->
              IF r = 0 /\ p \in Spawning(g)
              THEN Append(done[p][r], Result(NoOutcome, <<>>))
              ELSE done[p][r]]]
  /\ UNCHANGED <<seed_, counter_, prog, draws, pend>>

\* BeaverTfpUnsafe::Spawn at rank r of context g
Spawn(g, r) ==
  /\ pc[g][r] = "ready"
  /\ \E c \in Groups, s \in Seeds :
       /\ CallOp(g, r, OpRec("Spawn", 0, <<>>, 0, 0, c))
       /\ Len(done[g][r]) + 1 > Len(prog[g]) => c = UsedGroups + 1
       /\ CtorEnter(c, r, s)
       /\ pc' = [pc EXCEPT ![c][r] = CtorPc(r),
                           ![g][r] = IF r = 0 THEN "spawn" ELSE "ready"]
  /\ done' = IF r = 0 THEN done
             ELSE [done EXCEPT ![g][r] = Append(@, Result(NoOutcome, <<>>))]
  /\ UNCHANGED <<draws, pend>>

DoMul(g, r) ==
  /\ pc[g][r] = "ready"
  /\ \E f \in Fields, sh \in Shapes :
       /\ CallOp(g, r, OpRec("Mul", f, sh, 0, 0, 0))
       /\ Return(g, r, Mul(r, seed_[g][r], counter_[g][r], seeds_[g][r], f, sh), <<>>)
  /\ UNCHANGED <<pc, seed_, seeds_, chan, pend>>

DoDot(g, r) ==
  /\ pc[g][r] = "ready"
  /\ \E f \in Fields, d \in DotDims :
       /\ CallOp(g, r, OpRec("Dot", f, d, 0, 0, 0))
       /\ Return(g, r, Dot(r, seed_[g][r], counter_[g][r], seeds_[g][r], f,
                           d[1], d[2], d[3]), <<>>)
  /\ UNCHANGED <<pc, seed_, seeds_, chan, pend>>

DoAnd(g, r) ==
  /\ pc[g][r] = "ready"
  /\ \E f \in Fields, sh \in Shapes :
       /\ CallOp(g, r, OpRec("And", f, sh, 0, 0, 0))
       /\ Return(g, r, And(r, seed_[g][r], counter_[g][r], seeds_[g][r], f, sh), <<>>)
  /\ UNCHANGED <<pc, seed_, seeds_, chan, pend>>

DoTrunc(g, r) ==
  /\ pc[g][r] = "ready"
  /\ \E f \in Fields, sh \in Shapes :
       \E bits \in TruncBits(f) :
         /\ CallOp(g, r, OpRec("Trunc", f, sh, bits, 0, 0))
         /\ Return(g, r, Trunc(r, seed_[g][r], counter_[g][r], seeds_[g][r], f, sh, bits), <<>>)
  /\ UNCHANGED <<pc, seed_, seeds_, chan, pend>>

DoTruncPr(g, r) ==
  /\ pc[g][r] = "ready"
  /\ \E f \in Fields, sh \in Shapes :
       \E bits \in TruncBits(f) :
         /\ CallOp(g, r, OpRec("TruncPr", f, sh, bits, 0, 0))
         /\ Return(g, r, TruncPr(r, seed_[g][r], counter_[g][r], seeds_[g][r], f, sh, bits), <<>>)
  /\ UNCHANGED <<pc, seed_, seeds_, chan, pend>>

DoRandBit(g, r) ==
  /\ pc[g][r] = "ready"
  /\ \E f \in Fields, sh \in Shapes :
       \E rbits \in (IF r = 0 THEN BitArrays(Numel(sh)) ELSE {<<>>}) :
         /\ CallOp(g, r, OpRec("RandBit", f, sh, 0, 0, 0))
         /\ Return(g, r, RandBit(r, seed_[g][r], counter_[g][r], seeds_[g][r], f, sh, rbits), rbits)
  /\ UNCHANGED <<pc, seed_, seeds_, chan, pend>>

DoEqz(g, r) ==
  /\ pc[g][r] = "ready"
  /\ \E f \in Fields, sh \in Shapes :
       /\ CallOp(g, r, OpRec("Eqz", f, sh, 0, 0, 0))
       /\ Return(g, r, Eqz(r, seed_[g][r], counter_[g][r], seeds_[g][r], f, sh), <<>>)
  /\ UNCHANGED <<pc, seed_, seeds_, chan, pend>>

\* BeaverTfpUnsafe::PermPair up to its return, or up to rank 0's Recv
DoPermPair(g, r) ==
  /\ pc[g][r] = "ready"
  /\ \E f \in Fields, sh \in Shapes, perm_rank \in Ranks :
       \E perm_vec \in Perms(Numel(sh)) :
         LET d == PermPairDraw(seed_[g][r], counter_[g][r], f, sh)
         IN  /\ CallOp(g, r, OpRec("PermPair", f, sh, 0, perm_rank, 0))
             /\ d.counter <= MaxCounter
             /\ IF r = 0 /\ perm_rank # r
                THEN /\ pc' = [pc EXCEPT ![g][r] = "recv"]
                     /\ pend' = [pend EXCEPT ![g] = <<[d |-> d, perm_vec |-> perm_vec]>>]
                     /\ counter_' = [counter_ EXCEPT ![g][r] = d.counter]
                     /\ draws' = [draws EXCEPT ![g][r] = @ \o d.descs]
                     /\ UNCHANGED <<done, chan>>
                ELSE /\ Return(g, r, IF r = 0
                                     THEN PermPairAdjust(d, seeds_[g][r], f,
                                            PermPairVector(perm_rank, perm_vec, Buffer(<<>>)))
                                     ELSE PermPairPlain(d), perm_vec)
                     /\ chan' = IF PermPairSends(r, perm_rank)
                                THEN SendAsync(chan, g, r, kTag, Buffer(perm_vec))
                                ELSE chan
                     /\ UNCHANGED <<pc, pend>>
  /\ UNCHANGED <<seed_, seeds_>>

\* Rank 0's Recv in PermPair returns: the correction is applied with the
\* received vector and the call returns
PermPairRecv(g) ==
  LET op == prog[g][Len(done[g][0]) + 1]
      l == pend[g][1]
      res == PermPairAdjust(l.d, seeds_[g][0], op.field,
               PermPairVector(op.perm_rank, l.perm_vec, RecvBuf(chan, g, op.perm_rank, kTag)))
  IN  /\ pc[g][0] = "recv"
      /\ CanRecv(chan, g, op.perm_rank, kTag)
      /\ chan' = RecvPop(chan, g, op.perm_rank, kTag)
      /\ done' = [done EXCEPT ![g][0] = Append(@, Result(res, l.perm_vec))]
      /\ pc' = [pc EXCEPT ![g][0] = "ready"]
      /\ pend' = [pend EXCEPT ![g] = <<>>]
      /\ UNCHANGED <<seed_, counter_, seeds_, prog, draws>>

\* The channel fails while rank 0 waits in the constructor's Gather: the
\* exception leaves the constructor, and Spawn if it was the caller
CtorGatherFail(g) ==
  /\ pc[g][0] = "gather"
  /\ pc' = [p \in Groups |-> [r \in Ranks |->
              IF r = 0 /\ p = g THEN "ctor_failed"
              ELSE IF r = 0 /\ p \in Spawning(g) THEN "ready"
              ELSE pc[p][r]]]
  /\ done' = [p \in Groups |-> [r \in Ranks |->
              IF r = 0 /\ p \in Spawning(g)
              THEN Append(done[p][r], Result([ok |-> FALSE, out |-> <<>>], <<>>))
              ELSE done[p][r]]]
  /\ UNCHANGED <<seed_, counter_, seeds_, chan, prog, draws, pend>>

\* The channel fails while rank 0 waits in PermPair's Recv: the exception
\* leaves PermPair and the caller gives the session up
PermPairRecvFail(g) ==
  LET l == pend[g][1]
      res == PermPairFailed(l.d)
  IN  /\ pc[g][0] = "recv"
      /\ done' = [done EXCEPT ![g][0] = Append(@, Result(res, l.perm_vec))]
      /\ pc' = [pc EXCEPT ![g][0] = "aborted"]
      /\ pend' = [pend EXCEPT ![g] = <<>>]
      /\ UNCHANGED <<seed_, counter_, seeds_, chan, prog, draws>>

\* The steps on a reliable channel
NextReliable ==
  \/ \E r \in Ranks : Construct(r)
  \/ \E g \in Groups : CtorGather(g)
  \/ \E g \in Groups, r \in Ranks : Spawn(g, r)
  \/ \E g \in Groups, r \in Ranks : DoMul(g, r)
  \/ \E g \in Groups, r \in Ranks : DoDot(g, r)
  \/ \E g \in Groups, r \in Ranks : DoAnd(g, r)
  \/ \E g \in Groups, r \in Ranks : DoTrunc(g, r)
  \/ \E g \in Groups, r \in Ranks : DoTruncPr(g, r)
  \/ \E g \in Groups, r \in Ranks : DoRandBit(g, r)
  \/ \E g \in Groups, r \in Ranks : DoEqz(g, r)
  \/ \E g \in Groups, r \in Ranks : DoPermPair(g, r)
  \/ \E g \in Groups : PermPairRecv(g)

Next ==
  \/ \E r \in Ranks : Construct(r)
  \/ \E g \in Groups : CtorGather(g)
  \/ \E g \in Groups, r \in Ranks : Spawn(g, r)
  \/ \E g \in Groups, r \in Ranks : DoMul(g, r)
  \/ \E g \in Groups, r \in Ranks : DoDot(g, r)
  \/ \E g \in Groups, r \in Ranks : DoAnd(g, r)
  \/ \E g \in Groups, r \in Ranks : DoTrunc(g, r)
  \/ \E g \in Groups, r \in Ranks : DoTruncPr(g, r)
  \/ \E g \in Groups, r \in Ranks : DoRandBit(g, r)
  \/ \E g \in Groups, r \in Ranks : DoEqz(g, r)
  \/ \E g \in Groups, r \in Ranks : DoPermPair(g, r)
  \/ \E g \in Groups : PermPairRecv(g)
  \/ \E g \in Groups : CtorGatherFail(g)
  \/ \E g \in Groups : PermPairRecvFail(g)

Spec == Init /\ [][Next]_vars

\* A reliable channel and a running rank 0: a Recv whose buffer has arrived
\* returns
FairSpec ==
  /\ Init /\ [][NextReliable]_vars
  /\ \A g \in Groups : WF_vars(PermPairRecv(g))

\* ============================================================ properties
\* Calls of `kind` on context g that every party has finished without error
Finished(g, kind) ==
  {i \in 1..Len(prog[g]) :
     /\ prog[g][i].kind = kind
     /\ \A r \in Ranks : Len(done[g][r]) >= i /\ done[g][r][i].ok}

RECURSIVE SumTo(_, _, _, _)
SumTo(g, i, j, r) ==
  IF r = 0 THEN done[g][0][i].out[j]
  ELSE ring_add(SumTo(g, i, j, r - 1), done[g][r][i].out[j], prog[g][i].field)

RECURSIVE XorTo(_, _, _, _)
XorTo(g, i, j, r) ==
  IF r = 0 THEN done[g][0][i].out[j]
  ELSE ring_xor(XorTo(g, i, j, r - 1), done[g][r][i].out[j], prog[g][i].field)

\* Share j of call i on context g, reconstructed by adding (XORing) over all ranks
SumShares(g, i, j) == SumTo(g, i, j, NumParties - 1)
XorShares(g, i, j) == XorTo(g, i, j, NumParties - 1)

AllEq(x, v) == \A e \in DOMAIN x : x[e] = v

\* C1: once all parties have finished a Mul call, the sum of the c shares is
\* the elementwise product of the sum of the a shares and the sum of the b
\* shares, modulo the ring size, whatever was called before it.
C1_MulCorrect ==
  \A g \in Groups : \A i \in Finished(g, "Mul") :
    SumShares(g, i, 3) = ring_mul(SumShares(g, i, 1), SumShares(g, i, 2), prog[g][i].field)

\* A Mul call that follows another call, finished by all, whose product wraps
C1_Witness ==
  \E i \in Finished(1, "Mul") :
    /\ i > 1
    /\ \E e \in DOMAIN SumShares(1, i, 1) :
         SumShares(1, i, 1)[e] * SumShares(1, i, 2)[e] >= Pow2(prog[1][i].field)

\* C2: once all parties have finished a Dot(m,n,k) call, the shares have m*k,
\* k*n and m*n elements and the sum of the c shares is the matrix product of
\* the summed a and b shares, modulo the ring size.
C2_DotCorrect ==
  \A g \in Groups : \A i \in Finished(g, "Dot") :
    LET m == prog[g][i].shape[1]
        n == prog[g][i].shape[2]
        k == prog[g][i].shape[3]
    IN  /\ \A r \in Ranks : /\ Len(done[g][r][i].out[1]) = m * k
                            /\ Len(done[g][r][i].out[2]) = k * n
                            /\ Len(done[g][r][i].out[3]) = m * n
        /\ SumShares(g, i, 3) =
             ring_mmul(SumShares(g, i, 1), SumShares(g, i, 2), m, n, k, prog[g][i].field)

\* A finished Dot call with an inner dimension of 2 and a non-zero product
C2_Witness ==
  \E i \in Finished(1, "Dot") :
    /\ prog[1][i].shape = <<1, 1, 2>>
    /\ SumShares(1, i, 3)[1] # 0

\* C3: once all parties have finished an And call, the XOR of the c shares is
\* the bitwise AND of the XOR of the a shares and the XOR of the b shares.
C3_AndCorrect ==
  \A g \in Groups : \A i \in Finished(g, "And") :
    XorShares(g, i, 3) = ring_and(XorShares(g, i, 1), XorShares(g, i, 2), prog[g][i].field)

\* A finished And call whose reconstructed a is all-one and whose
\* reconstructed b is all-zero
C3_Witness ==
  \E i \in Finished(1, "And") :
    /\ AllEq(XorShares(1, i, 1), Pow2(prog[1][i].field) - 1)
    /\ AllEq(XorShares(1, i, 2), 0)

\* C4: once all parties have finished a PermPair call, the sum of the b shares
\* is the owner's permutation vector applied to the sum of the a shares,
\* whether the owner is rank 0 or another rank.
C4_PermCorrect ==
  \A g \in Groups : \A i \in Finished(g, "PermPair") :
    SumShares(g, i, 2) = applyPerm(SumShares(g, i, 1), done[g][prog[g][i].perm_rank][i].arg)

\* A finished PermPair call owned by rank 1 with a swapping vector, where
\* rank 0 passed another vector and the swap is visible
C4_Witness ==
  \E i \in Finished(1, "PermPair") :
    /\ prog[1][i].perm_rank = 1
    /\ done[1][1][i].arg = <<1, 0>>
    /\ done[1][0][i].arg = <<0, 1>>
    /\ SumShares(1, i, 1)[1] # SumShares(1, i, 1)[2]

\* The same, owned by rank 0
C4_WitnessOwner0 ==
  \E i \in Finished(1, "PermPair") :
    /\ prog[1][i].perm_rank = 0
    /\ done[1][0][i].arg = <<1, 0>>
    /\ SumShares(1, i, 1)[1] # SumShares(1, i, 1)[2]

\* Counter range [from, to) a draw consumed
DrawFrom(d) == d.prg_counter
DrawTo(d) == d.prg_counter + Numel(d.shape)

\* C5: on every session the draws start at strictly increasing counters and
\* consume pairwise disjoint counter ranges, all below the session's counter.
C5_CounterNonReuse ==
  \A g \in Groups, r \in Ranks :
    /\ \A i, j \in DOMAIN draws[g][r] :
         i < j => /\ DrawFrom(draws[g][r][i]) < DrawFrom(draws[g][r][j])
                  /\ DrawTo(draws[g][r][i]) <= DrawFrom(draws[g][r][j])
    /\ \A i \in DOMAIN draws[g][r] : DrawTo(draws[g][r][i]) <= counter_[g][r]

\* A session that made the draws of two calls
C5_Witness ==
  \E r \in Ranks : Len(done[1][r]) = 2 /\ Len(draws[1][r]) >= 4

Constructed(g, r) == pc[g][r] \in {"ready", "spawn", "recv"}

\* C6: a session at a rank other than 0 never holds a roster, whatever it has
\* called; only the rank-0 session of a context holds the parties' seeds.
C6_SeedConfinement ==
  \A g \in Groups :
    /\ \A r \in Ranks \ {0} : seeds_[g][r] = <<>>
    /\ Constructed(g, 0) => Len(seeds_[g][0]) = NumParties

\* A rank-1 session that finished a call, beside a rank-0 session holding
\* the rank-1 seed, which differs from its own
C6_Witness ==
  /\ Constructed(1, 0)
  /\ Len(done[1][1]) >= 1
  /\ seed_[1][1] # seed_[1][0]
  /\ seeds_[1][0][2] = seed_[1][1]

\* C7: once rank 0's construction on a context has completed, its roster has
\* one entry per rank and entry r is the seed the rank-r session of that
\* context sampled for itself.
C7_RosterContent ==
  \A g \in Groups :
    Constructed(g, 0) => seeds_[g][0] = [i \in 1..NumParties |-> seed_[g][i - 1]]

\* A spawned context whose roster is complete and whose seeds differ from the
\* seeds of the parent sessions
C7_Witness ==
  /\ Constructed(2, 0)
  /\ seed_[2][0] # seed_[2][1]
  /\ \A r \in Ranks : seed_[2][r] # seed_[1][r]

\* Seed, counter and roster of one session
Sess(g, r) == <<seed_[g][r], counter_[g][r], seeds_[g][r]>>

\* C8: a step that constructs a spawned session starts it with counter 0 and
\* an empty roster and changes no existing session's seed, counter or roster;
\* a step that changes an existing session's seed, counter or roster changes
\* those of no existing session bound to another context.
C8_SpawnIndependence ==
  [][/\ \A g \in Groups \ {1}, r \in Ranks :
          (pc[g][r] = "none" /\ pc'[g][r] # "none") =>
            /\ counter_'[g][r] = 0
            /\ seeds_'[g][r] = <<>>
            /\ \A p \in Groups, q \in Ranks : pc[p][q] # "none" => Sess(p, q)' = Sess(p, q)
     /\ \A g, p \in Groups, r, q \in Ranks :
          (g # p /\ pc[g][r] # "none" /\ pc[p][q] # "none" /\ Sess(g, r)' # Sess(g, r))
            => Sess(p, q)' = Sess(p, q)
    ]_vars

\* A spawned session that finished a call beside its untouched parent
C8_Witness ==
  /\ Len(done[2][1]) >= 1
  /\ counter_[2][1] > 0
  /\ counter_[1][1] = 0
  /\ seed_[2][1] # seed_[1][1]

\* A session spawned after its parent finished a call
C8_WitnessParent ==
  /\ Constructed(2, 0)
  /\ counter_[1][0] > 0
  /\ counter_[2][0] = 0

C9_WitnessWaiting == pc[1][0] = "gather" /\ pc[1][1] = "none"

\* C10: a Trunc or TruncPr call whose bit count exceeds the ring width ends
\* in an error at every rank and returns no share.
C10_EagerErrors ==
  \A g \in Groups, r \in Ranks : \A i \in 1..Len(done[g][r]) :
    (prog[g][i].kind \in {"Trunc", "TruncPr"} /\ prog[g][i].bits > prog[g][i].field)
      => (~done[g][r][i].ok /\ done[g][r][i].out = <<>>)

\* ------------------------------------------------------- message economy
TripleKinds == {"Mul", "Dot", "And", "Trunc", "TruncPr", "RandBit", "Eqz"}

\* The channels after one more buffer from rank r with tag kTag on context g
OneMoreFrom(g, r) ==
  /\ Len(chan'[g][r][kTag]) = Len(chan[g][r][kTag]) + 1
  /\ chan' = SendAsync(chan, g, r, kTag, chan'[g][r][kTag][Len(chan'[g][r][kTag])])

\* The channels after rank 0 has taken the oldest buffer of rank r
OneTakenFrom(g, r) ==
  /\ chan[g][r][kTag] # <<>>
  /\ chan' = RecvPop(chan, g, r, kTag)

\* C11: once the seeds are exchanged, a Mul, Dot, And, Trunc, TruncPr, RandBit
\* or Eqz call sends and receives nothing at any rank; a PermPair call makes
\* exactly one message, sent by perm_rank to rank 0 and received there, when
\* perm_rank is not 0, and none when perm_rank is 0.
C11_MessageEconomy ==
  [][\A g \in Groups, r \in Ranks :
       /\ (pc[g][r] = "ready" /\ pc'[g][r] = "recv") => chan' = chan
       /\ (Len(done'[g][r]) = Len(done[g][r]) + 1) =>
            LET op == prog'[g][Len(done'[g][r])]
            IN  /\ op.kind \in TripleKinds => chan' = chan
                /\ op.kind = "PermPair" =>
                     IF op.perm_rank = 0 THEN chan' = chan
                     ELSE IF r = op.perm_rank THEN OneMoreFrom(g, r)
                     ELSE IF r = 0 /\ pc'[g][r] = "ready" THEN OneTakenFrom(g, op.perm_rank)
                     ELSE chan' = chan]_vars

\* The owner, rank 1, has sent its vector and a perm_rank = 0 call has sent none
C11_Witness ==
  /\ Len(prog[1]) = 2
  /\ prog[1][1].kind = "PermPair" /\ prog[1][1].perm_rank = 1
  /\ prog[1][2].kind = "PermPair" /\ prog[1][2].perm_rank = 0
  /\ Len(done[1][1]) = 2 /\ Len(done[1][0]) = 0
  /\ Len(chan[1][1][kTag]) = 1

\* -------------------------------------------------------------- RandBit
\* C12: once all parties have finished a RandBit call, every element of the
\* sum of the a shares over all ranks, modulo the ring size, is 0 or 1.
C12_RandBitIsBit ==
  \A g \in Groups : \A i \in Finished(g, "RandBit") :
    \A e \in DOMAIN SumShares(g, i, 1) : SumShares(g, i, 1)[e] \in {0, 1}

\* A finished RandBit with both bit values in the sum, where no single share
\* is itself an array of bits
C12_Witness ==
  \E i \in Finished(1, "RandBit") :
    /\ prog[1][i].shape = <<2>>
    /\ SumShares(1, i, 1) = <<1, 0>>
    /\ \A r \in Ranks : \E e \in 1..2 : done[1][r][i].out[1][e] > 1

\* ------------------------------------------------------ lockstep counters
\* Calls a rank has entered on a context: those returned and the one rank 0
\* is blocked in
Entered(g, r) == Len(done[g][r]) + (IF pc[g][r] = "recv" THEN 1 ELSE 0)

\* Draws of the calls before call i of context g
RECURSIVE DrawsBefore(_, _)
DrawsBefore(g, i) ==
  IF i <= 1 THEN 0 ELSE DrawsBefore(g, i - 1) + NumDraws(prog[g][i - 1].kind)

\* C13: parties that have made the same calls on a context have equal
\* counters, so the descriptors rank 0 records from its own counter, replayed
\* with the roster's seed of rank r, give exactly the arrays rank r drew;
\* this holds for PermPair whatever role the rank plays in it.
C13_LockstepCounters ==
  \A g \in Groups, r \in Ranks :
    /\ Len(draws[g][r]) = DrawsBefore(g, Entered(g, r) + 1)
    /\ \A q \in Ranks :
         Entered(g, q) = Entered(g, r) => counter_[g][q] = counter_[g][r]
    /\ \A k \in 1..Len(draws[g][r]) :
         k <= Len(draws[g][0]) => draws[g][0][k] = draws[g][r][k]
    /\ (r # 0 /\ Constructed(g, 0)) =>
         \A i \in 1..Len(done[g][r]) : \A j \in 1..Len(done[g][r][i].out) :
           DrawsBefore(g, i) + j <= Len(draws[g][0]) =>
             done[g][r][i].out[j]
               = prgReplayArray(seeds_[g][0][r + 1], draws[g][0][DrawsBefore(g, i) + j])

\* Two PermPair calls on one context, rank 0 as bystander of none: owner of
\* the first, aggregator of the second, rank 1 the reverse; both finished
C13_Witness ==
  /\ Len(prog[1]) = 2
  /\ prog[1][1].kind = "PermPair" /\ prog[1][1].perm_rank = 0
  /\ prog[1][2].kind = "PermPair" /\ prog[1][2].perm_rank = 1
  /\ \A r \in Ranks : Len(done[1][r]) = 2 /\ counter_[1][r] > 0
  /\ done[1][1][2].out[2] # done[1][1][1].out[2]

\* ------------------------------------------------------- correction frame
\* Share j of call i at rank r as the generator gave it
RawShare(g, r, i, j) ==
  LET d == draws[g][r][DrawsBefore(g, i) + j]
  IN  prgCreateArray(d.field, d.shape, seed_[g][r], d.prg_counter).arr

\* C14: the shares a rank other than 0 returns are the raw outputs of its
\* generator for its own seed and counter range; rank 0 changes only the
\* output shares (c for Mul, Dot, And; b for Trunc, PermPair, Eqz; rc and rb
\* for TruncPr; a for RandBit) and returns its input shares unmodified.
C14_CorrectionFrame ==
  \A g \in Groups, r \in Ranks : \A i \in 1..Len(done[g][r]) :
    \A j \in 1..Len(done[g][r][i].out) :
      (r # 0 \/ j \notin Corrected(prog[g][i].kind))
        => done[g][r][i].out[j] = RawShare(g, r, i, j)

\* Rank 0 has returned a TruncPr triple whose rc and rb differ from the raw
\* draws, and rank 1 has returned the same call
C14_Witness ==
  \E i \in Finished(1, "TruncPr") :
    /\ done[1][0][i].out[2] # RawShare(1, 0, i, 2)
    /\ done[1][0][i].out[3] # RawShare(1, 0, i, 3)
    /\ done[1][0][i].out[1] = RawShare(1, 0, i, 1)

\* ------------------------------------------------- RandBit and Eqz corrections
\* The descriptors rank 0 recorded for call i of context g
DescsOf(g, i) ==
  SubSeq(draws[g][0], DrawsBefore(g, i) + 1, DrawsBefore(g, i) + NumDraws(prog[g][i].kind))

\* The adjustment the aggregator computed in call i (RandBit or Eqz) at rank 0
AdjustOf(g, i) ==
  IF prog[g][i].kind = "RandBit"
  THEN adjustRandBit(DescsOf(g, i), seeds_[g][0], done[g][0][i].arg)
  ELSE adjustEqz(DescsOf(g, i), seeds_[g][0])

\* Calls of a kind that rank 0 has returned from
ReturnedAtRoot(g, kind) ==
  {i \in 1..Len(done[g][0]) : prog[g][i].kind = kind /\ done[g][0][i].ok}

\* C15 as stated: at rank 0 the returned output share of RandBit and of Eqz
\* is the raw share XOR the adjustment.
C15_XorCorrections ==
  \A g \in Groups :
    /\ \A i \in ReturnedAtRoot(g, "RandBit") :
         done[g][0][i].out[1] = ring_xor(RawShare(g, 0, i, 1), AdjustOf(g, i), prog[g][i].field)
    /\ \A i \in ReturnedAtRoot(g, "Eqz") :
         done[g][0][i].out[2] = ring_xor(RawShare(g, 0, i, 2), AdjustOf(g, i), prog[g][i].field)

\* C15, amended: at rank 0 the returned b of Eqz is the raw b XOR the
\* adjustment, and the returned a of RandBit is the raw a plus the
\* adjustment modulo the ring size.
C15_EqzXorRandBitAdd ==
  \A g \in Groups :
    /\ \A i \in ReturnedAtRoot(g, "RandBit") :
         done[g][0][i].out[1] = ring_add(RawShare(g, 0, i, 1), AdjustOf(g, i), prog[g][i].field)
    /\ \A i \in ReturnedAtRoot(g, "Eqz") :
         done[g][0][i].out[2] = ring_xor(RawShare(g, 0, i, 2), AdjustOf(g, i), prog[g][i].field)

\* Rank 0 has returned a RandBit and an Eqz on which adding and XORing the
\* adjustment give different shares
C15_Witness ==
  /\ \E i \in ReturnedAtRoot(1, "RandBit") :
       ring_add(RawShare(1, 0, i, 1), AdjustOf(1, i), prog[1][i].field)
         # ring_xor(RawShare(1, 0, i, 1), AdjustOf(1, i), prog[1][i].field)
  /\ \E i \in ReturnedAtRoot(1, "Eqz") :
       ring_add(RawShare(1, 0, i, 2), AdjustOf(1, i), prog[1][i].field)
         # ring_xor(RawShare(1, 0, i, 2), AdjustOf(1, i), prog[1][i].field)

\* -------------------------------------------- PermPair ordering and progress
\* Rank 0 is blocked in the Recv of a PermPair call
Blocked(g) == pc[g][0] = "recv"

\* The owner of the PermPair call rank 0 is blocked in has made that call
OwnerCalled(g) ==
  Len(done[g][prog[g][Len(done[g][0]) + 1].perm_rank]) > Len(done[g][0])

\* Rank r is the owner, other than rank 0, of the PermPair call it is about
\* to repeat
OwnerAtCall(g, r) ==
  /\ r # 0 /\ pc[g][r] = "ready"
  /\ Len(done[g][r]) < Len(prog[g])
  /\ LET op == prog[g][Len(done[g][r]) + 1]
     IN  /\ op.kind = "PermPair" /\ op.perm_rank = r
         /\ counter_[g][r] + 2 * Numel(op.shape) <= MaxCounter

\* C16: in a PermPair with perm_rank other than 0, rank 0 never returns
\* before the owner has sent its vector, and the owner's call can return
\* whatever rank 0 does; on a reliable channel with rank 0 running, once the
\* owner has called PermPair rank 0's matching call eventually returns; as
\* long as the owner has not called it, rank 0 stays blocked.
C16_PermPairProgress ==
  /\ [](\A g \in Groups :
         /\ \A i \in 1..Len(done[g][0]) :
              (prog[g][i].kind = "PermPair" /\ prog[g][i].perm_rank # 0)
                => Len(done[g][prog[g][i].perm_rank]) >= i
         /\ \A r \in Ranks : OwnerAtCall(g, r) => ENABLED DoPermPair(g, r))
  /\ [][\A g \in Groups :
          (Blocked(g) /\ ~OwnerCalled(g)) => pc'[g][0] = "recv"]_vars
  /\ \A g \in Groups :
       (Blocked(g) /\ OwnerCalled(g)) ~> (pc[g][0] = "ready")

\* Rank 0 has returned from a PermPair owned by rank 1, with a corrected b
C16_Witness ==
  /\ Len(done[1][0]) = 1 /\ Len(done[1][1]) = 1
  /\ prog[1][1].kind = "PermPair" /\ prog[1][1].perm_rank = 1
  /\ done[1][0][1].ok /\ pc[1][0] = "ready"
  /\ done[1][0][1].out[2] # RawShare(1, 0, 1, 2)

\* Rank 0 is blocked while the owner, rank 1, may make its call
C16_WitnessBlocked == Blocked(1) /\ ~OwnerCalled(1) /\ OwnerAtCall(1, 1)

\* ------------------------------------------------------ channel failures
\* The session of rank r on context g was given up after a channel failure
GivenUp(g, r) == pc[g][r] \in {"ctor_failed", "aborted"}

\* C17: a channel failure in the seed-exchange gather or in rank 0's Recv of
\* PermPair is not retried and ends the call with an error; a failed
\* construction leaves no usable session and never a partly filled roster; a
\* failed PermPair returns no shares and applies no correction.
C17_FatalFailures ==
  /\ [](\A g \in Groups, r \in Ranks :
         /\ Len(seeds_[g][r]) \in {0, NumParties}
         /\ pc[g][r] = "ctor_failed" =>
              seeds_[g][r] = <<>> /\ done[g][r] = <<>> /\ counter_[g][r] = 0
         /\ pc[g][r] = "aborted" =>
              LET res == done[g][r][Len(done[g][r])]
              IN  ~res.ok /\ res.out = <<>>)
  /\ [][\A g \in Groups :
          /\ (pc[g][0] = "gather" /\ pc'[g][0] # "gather" /\ chan'[g] = chan[g])
               => pc'[g][0] = "ctor_failed"
          /\ (pc[g][0] = "recv" /\ pc'[g][0] # "recv" /\ chan'[g] = chan[g])
               => pc'[g][0] = "aborted"
          /\ \A r \in Ranks :
               GivenUp(g, r) =>
                 /\ pc'[g][r] = pc[g][r] /\ done'[g][r] = done[g][r]
                 /\ seeds_'[g][r] = seeds_[g][r] /\ counter_'[g][r] = counter_[g][r]
                 /\ \A q \in Ranks, t \in Tags :
                      Len(chan'[g][q][t]) >= Len(chan[g][q][t])]_vars

\* Rank 0's Spawn failed in the child's gather, and its PermPair failed in
\* Recv although the owner's vector had been sent
C17_Witness ==
  /\ pc[2][0] = "ctor_failed" /\ pc[2][1] = "ready"
  /\ pc[1][0] = "aborted" /\ Len(done[1][0]) = 2
  /\ chan[1][1][kTag] # <<>>

\* -------------------------------------------- roster and seed immutability
\* C18: once a session is constructed, no operation, Spawn included, changes
\* its seed or its roster; the roster is written only during construction,
\* and its length stays N at rank 0 and 0 at every other rank.
C18_RosterSeedImmutable ==
  /\ [](\A g \in Groups, r \in Ranks :
         Constructed(g, r) => Len(seeds_[g][r]) = (IF r = 0 THEN NumParties ELSE 0))
  /\ [][\A g \in Groups, r \in Ranks :
          /\ (Constructed(g, r) \/ pc[g][r] = "aborted")
               => (seed_'[g][r] = seed_[g][r] /\ seeds_'[g][r] = seeds_[g][r])
          /\ seeds_'[g][r] # seeds_[g][r]
               => (r = 0 /\ pc[g][r] = "gather" /\ pc'[g][r] = "ready")]_vars

\* Both ranks have spawned a child and run a RandBit on the parent session,
\* and the child sessions are constructed with seeds other than the parents'
C18_Witness ==
  /\ Len(prog[1]) = 2 /\ prog[1][1].kind = "Spawn" /\ prog[1][2].kind = "RandBit"
  /\ \A r \in Ranks : Len(done[1][r]) = 2 /\ pc[2][r] = "ready"
                        /\ seed_[2][r] # seed_[1][r]
  /\ Len(seeds_[1][0]) = NumParties /\ Len(seeds_[2][0]) = NumParties

\* ------------------------------------------- permutation messages in order
\* The vectors of the PermPair calls from..to of context g that rank p owns
\* and has made, as the buffers it sent, oldest first
RECURSIVE SentVectors(_, _, _, _)
SentVectors(g, p, from, to) ==
  IF from > to THEN <<>>
  ELSE (IF prog[g][from].kind = "PermPair" /\ prog[g][from].perm_rank = p
        THEN <<Buffer(done[g][p][from].arg)>> ELSE <<>>)
       \o SentVectors(g, p, from + 1, to)

\* Rank 0's b of PermPair call i corrected with the vector pv
CorrectedWith(g, i, pv) ==
  ring_add(RawShare(g, 0, i, 2), adjustPerm(DescsOf(g, i), seeds_[g][0], pv),
           prog[g][i].field)

C19_WitnessAhead ==
  /\ Len(chan[1][1][kTag]) = 2
  /\ chan[1][1][kTag][1] # chan[1][1][kTag][2]
  /\ pc[1][0] = "recv" /\ Len(done[1][0]) = 0

\* ------------------------------------------------ only the owner's vector
\* PermPair calls of context g that rank r has returned from
PermPairsOf(g, r) ==
  {i \in 1..Len(done[g][r]) : prog[g][i].kind = "PermPair" /\ done[g][r][i].ok}

\* C20: what a PermPair call returns at any rank, and what it sends, is
\* determined by the seeds, the counters and the perm_vec of the rank equal
\* to perm_rank alone: the perm_vec any other rank passes, rank 0's own when
\* perm_rank is not 0 included, has no effect.
C20_OwnerVectorOnly ==
  \A g \in Groups, r \in Ranks :
    /\ \A i \in PermPairsOf(g, r) :
         /\ done[g][r][i].out[1] = RawShare(g, r, i, 1)
         /\ done[g][r][i].out[2]
              = IF r = 0
                THEN CorrectedWith(g, i, done[g][prog[g][i].perm_rank][i].arg)
                ELSE RawShare(g, r, i, 2)
    /\ \A k \in 1..Len(chan[g][r][kTag]) :
         \E i \in PermPairsOf(g, r) :
           /\ prog[g][i].perm_rank = r
           /\ chan[g][r][kTag][k] = Buffer(done[g][r][i].arg)

\* Both ranks have returned from a PermPair owned by rank 1 and one owned by
\* rank 0, where the other rank passed a different vector, with which rank 0
\* would have returned another b
C20_Witness ==
  /\ Len(prog[1]) = 2
  /\ \A i \in 1..2 : i \in PermPairsOf(1, 0) /\ i \in PermPairsOf(1, 1)
  /\ prog[1][1].perm_rank = 1 /\ prog[1][2].perm_rank = 0
  /\ \A i \in 1..2 :
       /\ done[1][0][i].arg # done[1][1][i].arg
       /\ CorrectedWith(1, i, done[1][0][i].arg) # CorrectedWith(1, i, done[1][1][i].arg)

====
